---------------------------- MODULE Spec2Model ----------------------------
(***************************************************************************)
(* A model of convert_calendar.py: the conversion of the calendar log of   *)
(* an FGU db.xml into the notes of the Simple Calendar module in a Foundry *)
(* settings.db.                                                            *)
(*                                                                         *)
(* A string that the program takes apart or puts together is a sequence   *)
(* of one-character strings (a tag name is one token), so that stripping,  *)
(* escaping, formatting and parsing are computed and not assumed.  An      *)
(* optional value (a Python value that may be None) is None == <<>> or     *)
(* Some(x) == <<x>>.                                                       *)
(***************************************************************************)
EXTENDS Integers, Sequences, FiniteSets, TLC

VARIABLES
    t_element,      \* textify: the element it is called with
    t_result,       \* textify: what it returned (None before the call)
    e_call,         \* get_fvtt_entries: its arguments and the random source
    e_result,       \* get_fvtt_entries: what list() of it gave (None before)
    pc,             \* the script: the statement it is at
    args,           \* the script: author, public_title, private_title
    random,         \* the script: the process-wide random source
    fgu,            \* db.xml: Some(children of calendar/log), None without it
    fvtt_file,      \* settings.db: its contents on disk
    fvtt_pos,       \* args["fvtt"]: the position of the open file
    backups,        \* settings.db.bak.N: N -> contents, for the N that exist
    index,          \* the script's variables, None while not assigned
    fgu_db_logs,
    fvtt_entries,
    lines,
    line_number,
    payload,
    exit_status,    \* None while running, then [code, error]
    writes,         \* history: the writes to settings.db so far
    fvtt_file0,     \* history: settings.db before the run
    backups0        \* history: the backups before the run

t_vars == <<t_element, t_result>>
e_vars == <<e_call, e_result>>
m_vars == <<pc, args, random, fgu, fvtt_file, fvtt_pos, backups, index,
            fgu_db_logs, fvtt_entries, lines, line_number, payload,
            exit_status, writes, fvtt_file0, backups0>>
vars == <<t_vars, e_vars, m_vars>>

None == <<>>
Some(x) == <<x>>

(***************************************************************************)
(* Strings                                                                 *)
(***************************************************************************)
Whitespace == {" ", "\n", "\t"}

RECURSIVE lstrip(_)
lstrip(s) ==
    IF s # <<>> /\ Head(s) \in Whitespace THEN lstrip(Tail(s)) ELSE s

RECURSIVE rstrip(_)
rstrip(s) ==
    IF s # <<>> /\ s[Len(s)] \in Whitespace
    THEN rstrip(SubSeq(s, 1, Len(s) - 1))
    ELSE s

strip(s) == rstrip(lstrip(s))

\* Python's truth value of an optional string: None and "" are falsy.
Truthy(text) == text # None /\ text[1] # <<>>

(***************************************************************************)
(* xml.etree.ElementTree                                                   *)
(***************************************************************************)
Element(tag, text, kids, tail) ==
    [tag |-> tag, text |-> text, kids |-> kids, tail |-> tail]

\* ElementTree._escape_cdata (the inputs here are ASCII, so the "us-ascii"
\* encoding of tostring and the decode that follows change nothing else).
escape_char(c) ==
    CASE c = "&" -> <<"&", "a", "m", "p", ";">>
      [] c = "<" -> <<"&", "l", "t", ";">>
      [] c = ">" -> <<"&", "g", "t", ";">>
      [] OTHER -> <<c>>

RECURSIVE escape_cdata(_)
escape_cdata(s) ==
    IF s = <<>> THEN <<>> ELSE escape_char(Head(s)) \o escape_cdata(Tail(s))

\* ElementTree.tostring(element): the start tag, the text, the children, the
\* end tag (or the short form of an element with neither text nor children),
\* and then the element's tail.
RECURSIVE tostring(_)
RECURSIVE serialize_all(_)
serialize_all(elements) ==
    IF elements = <<>> THEN <<>>
    ELSE tostring(Head(elements)) \o serialize_all(Tail(elements))

tostring(element) ==
    (IF Truthy(element.text) \/ element.kids # <<>>
     THEN <<"<">> \o element.tag \o <<">">>
          \o (IF Truthy(element.text) THEN escape_cdata(element.text[1]) ELSE <<>>)
          \o serialize_all(element.kids)
          \o <<"<", "/">> \o element.tag \o <<">">>
     ELSE <<"<">> \o element.tag \o <<" ", "/", ">">>)
    \o (IF Truthy(element.tail) THEN escape_cdata(element.tail[1]) ELSE <<>>)

\* Element.find(tag): the first direct child with the tag, or None.
RECURSIVE find(_, _)
find(kids, tag) ==
    IF kids = <<>> THEN None
    ELSE IF Head(kids).tag = tag THEN Some(Head(kids))
    ELSE find(Tail(kids), tag)

(***************************************************************************)
(* textify                                                                 *)
(***************************************************************************)
\* A filter that drops the children that look blank.
has_visible_text(child) == Truthy(child.text) /\ strip(child.text[1]) # <<>>

\* filter(attrgetter("text"), element): the children whose text is truthy.
has_text(child) == Truthy(child.text)

\* compose(strip, decode, tostring)
fragment(child) == strip(tostring(child))

RECURSIVE join_map(_)
join_map(children) ==
    IF children = <<>> THEN <<>>
    ELSE fragment(Head(children)) \o join_map(Tail(children))

textify(element) == join_map(SelectSeq(element.kids, has_text))

(***************************************************************************)
(* get_id                                                                  *)
(***************************************************************************)
\* An outcome of randrange(0, 1 << 32) is kept as its two 16-bit halves
\* <<hi, lo>>, the number hi * 65536 + lo.
HexDigits ==
    <<"0", "1", "2", "3", "4", "5", "6", "7",
      "8", "9", "a", "b", "c", "d", "e", "f">>

\* format(n, "x") of 0 <= n < 65536: the hexadecimal digits, without padding.
RECURSIVE hex(_)
hex(n) ==
    IF n < 16 THEN <<HexDigits[n + 1]>>
    ELSE hex(n \div 16) \o <<HexDigits[(n % 16) + 1]>>

RECURSIVE zfill(_, _)
zfill(s, width) == IF Len(s) >= width THEN s ELSE zfill(<<"0">> \o s, width)

\* "{0:x}".format(n)
format_x(n) == IF n[1] > 0 THEN hex(n[1]) \o zfill(hex(n[2]), 4) ELSE hex(n[2])

\* "{0:08x}".format(n)
format_08x(n) == zfill(format_x(n), 8)

\* An id without its leading zeros.
get_id_unpadded(n) == format_x(n)

get_id(n) == format_08x(n)

\* The process-wide random source: the outcome of its k-th call (k = 1, 2,
\* ...).  "cycle" repeats a tuple of outcomes, "count" gives start, start + 1,
\* ... (modulo 2^32).
randrange(rng, k) ==
    IF rng.kind = "cycle"
    THEN rng.vals[((k - 1) % Len(rng.vals)) + 1]
    ELSE LET lo == rng.start[2] + (k - 1)
         IN <<(rng.start[1] + (lo \div 65536)) % 65536, lo % 65536>>

(***************************************************************************)
(* get_fvtt_entries                                                        *)
(***************************************************************************)
Digits == <<"0", "1", "2", "3", "4", "5", "6", "7", "8", "9">>
IsDigit(c) == \E d \in 1..10 : Digits[d] = c
DigitValue(c) == (CHOOSE d \in 1..10 : Digits[d] = c) - 1

RECURSIVE decimal(_)
decimal(s) ==
    IF s = <<>> THEN 0
    ELSE 10 * decimal(SubSeq(s, 1, Len(s) - 1)) + DigitValue(s[Len(s)])

\* int(text): None when it raises (text is None: TypeError; text is not an
\* optionally signed run of digits with whitespace around it: ValueError).
\* No text here holds an underscore or a digit that is not ASCII.
int(text) ==
    IF text = None THEN None
    ELSE LET s == strip(text[1])
             signed == s # <<>> /\ Head(s) \in {"+", "-"}
             body == IF signed THEN Tail(s) ELSE s
         IN IF body = <<>> \/ \E i \in 1..Len(body) : ~IsDigit(body[i])
            THEN None
            ELSE Some(IF signed /\ Head(s) = "-"
                      THEN 0 - decimal(body) ELSE decimal(body))

\* {**a, **b}: the keys of both, b's value where both have the key.
Merge(a, b) ==
    [k \in DOMAIN a \cup DOMAIN b |-> IF k \in DOMAIN b THEN b[k] ELSE a[k]]

\* int(fgu_entry.find(element).text): None when it raises (no such child:
\* AttributeError).
time_field(fgu_entry, element) ==
    LET found == find(fgu_entry.kids, <<element>>)
    IN IF found = None THEN None ELSE int(found[1].text)

\* The dictionary time after the loop that sets hour and minute, or None when
\* one of the three conversions raised.
time_of(fgu_entry) ==
    LET year == time_field(fgu_entry, "year")
        month == time_field(fgu_entry, "month")
        day == time_field(fgu_entry, "day")
    IN IF year = None \/ month = None \/ day = None THEN None
       ELSE Some(Merge([year |-> year[1], month |-> month[1], day |-> day[1]],
                       [hour |-> 0, minute |-> 0]))

base_entry_of(author, time) ==
    Merge([author |-> author, repeats |-> 0, allDay |-> TRUE,
           categories |-> <<>>, remindUsers |-> <<>>,
           endDate |-> Merge([seconds |-> 0], time)],
          time)

\* A note with the priorities of the two variants exchanged.
fvtt_entry_swapped(content, is_public, public_title, private_title, base_entry, id) ==
    Merge([id |-> id,
           content |-> content,
           playerVisible |-> is_public,
           title |-> IF is_public THEN public_title ELSE private_title,
           priority |-> IF is_public THEN 1 ELSE 0],
          base_entry)

fvtt_entry(content, is_public, public_title, private_title, base_entry, id) ==
    Merge([id |-> id,
           content |-> content,
           playerVisible |-> is_public,
           title |-> IF is_public THEN public_title ELSE private_title,
           priority |-> IF is_public THEN 0 ELSE 1],
          base_entry)

log_tag(is_public) == IF is_public THEN <<"logentry">> ELSE <<"gmlogentry">>

\* A round that yields a note for an empty text too.
variant_unskipped(fgu_entry, is_public, public_title, private_title, base_entry, rng, drawn) ==
    LET log == find(fgu_entry.kids, log_tag(is_public))
    IN IF log = None THEN [notes |-> <<>>, raised |-> TRUE]
       ELSE [notes |->
                <<fvtt_entry(textify(log[1]), is_public, public_title,
                             private_title, base_entry,
                             get_id(randrange(rng, drawn + 1)))>>,
             raised |-> FALSE]

\* One round of the loop over (True, False), with `drawn` outcomes of the
\* random source used before it: the notes it yields (none or one) and
\* whether it raised (textify of a block that is not there: TypeError).
variant(fgu_entry, is_public, public_title, private_title, base_entry, rng, drawn) ==
    LET log == find(fgu_entry.kids, log_tag(is_public))
    IN IF log = None THEN [notes |-> <<>>, raised |-> TRUE]
       ELSE LET content == textify(log[1])
            IN IF content = <<>> THEN [notes |-> <<>>, raised |-> FALSE]
               ELSE [notes |->
                        <<fvtt_entry(content, is_public, public_title,
                                     private_title, base_entry,
                                     get_id(randrange(rng, drawn + 1)))>>,
                     raised |-> FALSE]

\* list(get_fvtt_entries(...)): the notes yielded until the generator ended
\* or raised, and whether it raised.
get_fvtt_entries(fgu_entry, public_title, private_title, author, rng, drawn) ==
    LET time == time_of(fgu_entry)
    IN IF time = None THEN [notes |-> <<>>, raised |-> TRUE]
       ELSE LET base_entry == base_entry_of(author, time[1])
                public == variant(fgu_entry, TRUE, public_title,
                                  private_title, base_entry, rng, drawn)
                private == variant(fgu_entry, FALSE, public_title,
                                   private_title, base_entry, rng,
                                   drawn + Len(public.notes))
            IN IF public.raised THEN public
               ELSE [notes |-> public.notes \o private.notes,
                     raised |-> private.raised]

(***************************************************************************)
(* json                                                                    *)
(***************************************************************************)
Q == "\""
BS == "\\"

\* The concatenation of a sequence of sequences.
RECURSIVE Flatten(_)
Flatten(ss) ==
    IF Len(ss) = 0 THEN <<>>
    ELSE IF Len(ss) = 1 THEN ss[1]
    ELSE LET half == Len(ss) \div 2
         IN Flatten(SubSeq(ss, 1, half)) \o Flatten(SubSeq(ss, half + 1, Len(ss)))

\* sep.join(ss)
Join(ss, sep) ==
    Flatten([i \in 1..(2 * Len(ss) - 1) |->
                IF i % 2 = 1 THEN ss[(i + 1) \div 2] ELSE sep])

\* A Python string that the script never takes apart is one token.
Chars(s) == IF s = "" THEN <<>> ELSE <<s>>

json_escape_char(c) ==
    CASE c = Q -> <<BS, Q>>
      [] c = BS -> <<BS, BS>>
      [] c = "\n" -> <<BS, "n">>
      [] c = "\t" -> <<BS, "t">>
      [] OTHER -> <<c>>

json_unescape_char(c) ==
    CASE c = "n" -> "\n"
      [] c = "t" -> "\t"
      [] OTHER -> c

dumps_str(s) ==
    <<Q>> \o Flatten([i \in 1..Len(s) |-> json_escape_char(s[i])]) \o <<Q>>

dumps_int(n) == <<ToString(n)>>
dumps_bool(b) == <<IF b THEN "true" ELSE "false">>

\* json.dumps of a dictionary, with its separators ", " and ": ".
member(name, value) == dumps_str(<<name>>) \o <<": ">> \o value
dumps_dict(members) == <<"{">> \o Join(members, <<", ">>) \o <<"}">>

\* The keys of a note in the order of the dictionary display that builds it.
dumps_time(time) ==
    <<member("year", dumps_int(time.year)),
      member("month", dumps_int(time.month)),
      member("day", dumps_int(time.day)),
      member("hour", dumps_int(time.hour)),
      member("minute", dumps_int(time.minute))>>

dumps_entry(entry) ==
    dumps_dict(
        <<member("id", dumps_str(entry.id)),
          member("content", dumps_str(entry.content)),
          member("playerVisible", dumps_bool(entry.playerVisible)),
          member("title", dumps_str(Chars(entry.title))),
          member("priority", dumps_int(entry.priority)),
          member("author", dumps_str(Chars(entry.author))),
          member("repeats", dumps_int(entry.repeats)),
          member("allDay", dumps_bool(entry.allDay)),
          member("categories", <<"[", "]">>),
          member("remindUsers", <<"[", "]">>),
          member("endDate",
                 dumps_dict(<<member("seconds", dumps_int(entry.endDate.seconds))>>
                            \o dumps_time(entry.endDate)))>>
        \o dumps_time(entry))

\* dumps(fvtt_entries)
dumps(entries) ==
    <<"[">> \o Join([i \in 1..Len(entries) |-> dumps_entry(entries[i])], <<", ">>)
        \o <<"]">>

\* A line of settings.db decodes to a dictionary of strings, kept as the
\* sequence of its members [name, value] in order.
dumps_payload(p) ==
    dumps_dict([i \in 1..Len(p) |->
                   dumps_str(p[i].name) \o <<": ">> \o dumps_str(p[i].value)])

\* The quote that closes the string opened by the quote at toks[i], 0 if
\* there is none.  (No string here holds a literal backslash, so a quote after
\* a backslash is an escaped one.)
close_quote(toks, i) ==
    LET closing == {j \in (i + 1)..Len(toks) : toks[j] = Q /\ toks[j - 1] # BS}
    IN IF closing = {} THEN 0
       ELSE CHOOSE j \in closing : \A k \in closing : j <= k

json_unescape(s) ==
    SelectSeq([i \in 1..Len(s) |->
                  IF s[i] = BS THEN ""
                  ELSE IF i > 1 /\ s[i - 1] = BS THEN json_unescape_char(s[i])
                  ELSE s[i]],
              LAMBDA c : c # "")

\* The members from the name that opens at toks[i] on; None for what
\* json.loads rejects.
RECURSIVE loads_members(_, _)
loads_members(toks, i) ==
    IF i > Len(toks) \/ toks[i] # Q THEN None
    ELSE LET j == close_quote(toks, i)
         IN IF j = 0 \/ j + 2 > Len(toks) \/ toks[j + 1] \notin {":", ": "}
               \/ toks[j + 2] # Q
            THEN None
            ELSE LET k == close_quote(toks, j + 2)
                     m == [name |-> json_unescape(SubSeq(toks, i + 1, j - 1)),
                           value |-> json_unescape(SubSeq(toks, j + 3, k - 1))]
                 IN IF k = 0 \/ k + 1 > Len(toks) THEN None
                    ELSE IF toks[k + 1] = "}"
                    THEN (IF k + 1 = Len(toks) THEN Some(<<m>>) ELSE None)
                    ELSE IF toks[k + 1] \in {",", ", "}
                    THEN LET more == loads_members(toks, k + 2)
                         IN IF more = None THEN None ELSE Some(<<m>> \o more[1])
                    ELSE None

\* json.loads(text): Some(payload), or None when it raises JSONDecodeError.
loads(text) ==
    IF text = <<>> \/ text[1] # "{" THEN None
    ELSE IF text = <<"{", "}">> THEN Some(<<>>)
    ELSE loads_members(text, 2)

\* payload[name]: Some(value), or None when it raises KeyError.
getitem(p, name) ==
    LET at == {i \in 1..Len(p) : p[i].name = <<name>>}
    IN IF at = {} THEN None ELSE Some(p[CHOOSE i \in at : TRUE].value)

\* payload[name] = value: in place when the key is there, else at the end.
setitem(p, name, value) ==
    IF \E i \in 1..Len(p) : p[i].name = <<name>>
    THEN [i \in 1..Len(p) |->
             IF p[i].name = <<name>> THEN [p[i] EXCEPT !.value = value] ELSE p[i]]
    ELSE Append(p, [name |-> <<name>>, value |-> value])

(***************************************************************************)
(* Files                                                                   *)
(***************************************************************************)
\* file.readlines() from the start of the file: the text cut after each "\n".
readlines(data) ==
    LET ends == {i \in 1..Len(data) : data[i] = "\n" \/ i = Len(data)}
        nth(n) == CHOOSE e \in ends : Cardinality({x \in ends : x <= e}) = n
    IN [n \in 1..Cardinality(ends) |->
           SubSeq(data, IF n = 1 THEN 1 ELSE nth(n - 1) + 1, nth(n))]

\* file.write(text) at position pos: what the text covers is replaced, the
\* rest of the file stays.
write_at(data, pos, text) ==
    SubSeq(data, 1, pos) \o text \o SubSeq(data, pos + Len(text) + 1, Len(data))

(***************************************************************************)
(* The script                                                              *)
(***************************************************************************)
CAL_SETTINGS == "foundryvtt-simple-calendar.notes"

\* The index of the entry that the script prints after the conversion.
PrintIndex == 50

\* A probe that finds no backup.
path_exists_never(i) == FALSE

\* path.exists(f"{args['fvtt'].name}.bak.{index}")
path_exists(i) == i \in DOMAIN backups

\* lambda child: child.tag != "public"
is_log(child) == child.tag # <<"public">>

\* The elements of b, then those of a.
chain_reversed(a, b) == b \o a

\* chain(a, b): the elements of a, then those of b.
chain(a, b) == a \o b

\* A conversion that skips an entry whose generator raises.
RECURSIVE convert_all_skipping(_, _, _, _)
convert_all_skipping(logs, a, source, drawn) ==
    IF logs = <<>> THEN [notes |-> <<>>, raised |-> FALSE]
    ELSE LET first == get_fvtt_entries(Head(logs), a.public_title,
                                       a.private_title, a.author, source, drawn)
             kept == IF first.raised THEN <<>> ELSE first.notes
             others == convert_all_skipping(Tail(logs), a, source,
                                            drawn + Len(kept))
         IN [notes |-> kept \o others.notes, raised |-> others.raised]

\* list(chain.from_iterable(map(converter, fgu_db_logs))), with `drawn`
\* outcomes of the random source used before it: the notes, and whether a
\* generator raised (the list is then never bound).
RECURSIVE convert_all(_, _, _, _)
convert_all(logs, a, source, drawn) ==
    IF logs = <<>> THEN [notes |-> <<>>, raised |-> FALSE]
    ELSE LET first == get_fvtt_entries(Head(logs), a.public_title,
                                       a.private_title, a.author, source, drawn)
         IN IF first.raised THEN [notes |-> <<>>, raised |-> TRUE]
            ELSE LET others == convert_all(Tail(logs), a, source,
                                           drawn + Len(first.notes))
                 IN [notes |-> chain(first.notes, others.notes),
                     raised |-> others.raised]

Abort(error) ==
    /\ pc' = "aborted"
    /\ exit_status' = [code |-> 1, error |-> error]

\* while path.exists(...): index += 1
ProbeBackup ==
    /\ pc = "backup"
    /\ path_exists(index)
    /\ index' = index + 1
    /\ UNCHANGED <<pc, args, random, fgu, fvtt_file, fvtt_pos, backups,
                   fgu_db_logs, fvtt_entries, lines, line_number, payload,
                   exit_status, writes, fvtt_file0, backups0, t_vars, e_vars>>

\* copyfile(args["fvtt"].name, f"{args['fvtt'].name}.bak.{index}")
CopyBackup ==
    /\ pc = "backup"
    /\ ~path_exists(index)
    /\ backups' = (index :> fvtt_file) @@ backups
    /\ pc' = "parse"
    /\ UNCHANGED <<args, random, fgu, fvtt_file, fvtt_pos, index,
                   fgu_db_logs, fvtt_entries, lines, line_number, payload,
                   exit_status, writes, fvtt_file0, backups0, t_vars, e_vars>>

\* fgu_db_logs = list(filter(..., fgu_db_root.find("./calendar/log")));
\* filter over None raises TypeError.
CollectLogs ==
    /\ pc = "parse"
    /\ IF fgu = None
       THEN Abort("TypeError") /\ UNCHANGED fgu_db_logs
       ELSE /\ fgu_db_logs' = SelectSeq(fgu[1], is_log)
            /\ pc' = "convert"
            /\ UNCHANGED exit_status
    /\ UNCHANGED <<args, random, fgu, fvtt_file, fvtt_pos, backups, index,
                   fvtt_entries, lines, line_number, payload,
                   writes, fvtt_file0, backups0, t_vars, e_vars>>

\* fvtt_entries = list(chain.from_iterable(map(converter, fgu_db_logs)))
Convert ==
    /\ pc = "convert"
    /\ LET got == convert_all(fgu_db_logs, args, random, 0)
       IN IF got.raised
          THEN Abort("ConversionError") /\ UNCHANGED fvtt_entries
          ELSE /\ fvtt_entries' = got.notes
               /\ pc' = "print"
               /\ UNCHANGED exit_status
    /\ UNCHANGED <<args, random, fgu, fvtt_file, fvtt_pos, backups, index,
                   fgu_db_logs, lines, line_number, payload,
                   writes, fvtt_file0, backups0, t_vars, e_vars>>

\* print(dumps(fvtt_entries[50], indent=4)): IndexError on a shorter list.
PrintEntry ==
    /\ pc = "print"
    /\ IF Len(fvtt_entries) > PrintIndex
       THEN pc' = "read" /\ UNCHANGED exit_status
       ELSE Abort("IndexError")
    /\ UNCHANGED <<args, random, fgu, fvtt_file, fvtt_pos, backups, index,
                   fgu_db_logs, fvtt_entries, lines, line_number, payload,
                   writes, fvtt_file0, backups0, t_vars, e_vars>>

\* lines := args["fvtt"].readlines(), and the loop is at its first line.
ReadLines ==
    /\ pc = "read"
    /\ lines' = readlines(SubSeq(fvtt_file, fvtt_pos + 1, Len(fvtt_file)))
    /\ fvtt_pos' = Len(fvtt_file)
    /\ line_number' = 0
    /\ pc' = "scan"
    /\ UNCHANGED <<args, random, fgu, fvtt_file, backups, index,
                   fgu_db_logs, fvtt_entries, payload,
                   exit_status, writes, fvtt_file0, backups0, t_vars, e_vars>>

\* One round of the for loop: payload := loads(line.strip()), and break when
\* payload["key"] is CAL_SETTINGS.
ScanLine ==
    /\ pc = "scan"
    /\ line_number < Len(lines)
    /\ LET decoded == loads(strip(lines[line_number + 1]))
           key == IF decoded = None THEN None ELSE getitem(decoded[1], "key")
       IN IF decoded = None
          THEN Abort("JSONDecodeError") /\ UNCHANGED <<payload, line_number>>
          ELSE IF key = None
          THEN /\ Abort("KeyError")
               /\ payload' = decoded[1]
               /\ UNCHANGED line_number
          ELSE /\ payload' = decoded[1]
               /\ UNCHANGED exit_status
               /\ IF key[1] = <<CAL_SETTINGS>>
                  THEN pc' = "splice" /\ UNCHANGED line_number
                  ELSE pc' = "scan" /\ line_number' = line_number + 1
    /\ UNCHANGED <<args, random, fgu, fvtt_file, fvtt_pos, backups, index,
                   fgu_db_logs, fvtt_entries, lines,
                   writes, fvtt_file0, backups0, t_vars, e_vars>>

\* The else branch of the loop: exit(f"Failed to find settings: ...").
NotFound ==
    /\ pc = "scan"
    /\ line_number = Len(lines)
    /\ Abort("Failed to find settings")
    /\ UNCHANGED <<args, random, fgu, fvtt_file, fvtt_pos, backups, index,
                   fgu_db_logs, fvtt_entries, lines, line_number, payload,
                   writes, fvtt_file0, backups0, t_vars, e_vars>>

\* payload["value"] = dumps(fvtt_entries);
\* lines[line_number] = dumps(payload) + "\n"
Splice ==
    /\ pc = "splice"
    /\ payload' = setitem(payload, "value", dumps(fvtt_entries))
    /\ lines' = [lines EXCEPT ![line_number + 1] = dumps_payload(payload') \o <<"\n">>]
    /\ pc' = "write"
    /\ UNCHANGED <<args, random, fgu, fvtt_file, fvtt_pos, backups, index,
                   fgu_db_logs, fvtt_entries, line_number,
                   exit_status, writes, fvtt_file0, backups0, t_vars, e_vars>>

\* args["fvtt"].seek(0); args["fvtt"].writelines(lines)
WriteLines ==
    /\ pc = "write"
    /\ fvtt_file' = write_at(fvtt_file, 0, Flatten(lines))
    /\ fvtt_pos' = Len(Flatten(lines))
    /\ writes' = writes + 1
    /\ pc' = "truncate"
    /\ UNCHANGED <<args, random, fgu, backups, index,
                   fgu_db_logs, fvtt_entries, lines, line_number, payload,
                   exit_status, fvtt_file0, backups0, t_vars, e_vars>>

\* args["fvtt"].truncate: the method is named and not called, the file keeps
\* its length.
Truncate ==
    /\ pc = "truncate"
    /\ pc' = "exit"
    /\ UNCHANGED <<args, random, fgu, fvtt_file, fvtt_pos, backups, index,
                   fgu_db_logs, fvtt_entries, lines, line_number, payload,
                   exit_status, writes, fvtt_file0, backups0, t_vars, e_vars>>

\* exit()
Exit ==
    /\ pc = "exit"
    /\ pc' = "done"
    /\ exit_status' = [code |-> 0, error |-> ""]
    /\ UNCHANGED <<args, random, fgu, fvtt_file, fvtt_pos, backups, index,
                   fgu_db_logs, fvtt_entries, lines, line_number, payload,
                   writes, fvtt_file0, backups0, t_vars, e_vars>>

(***************************************************************************)
(* The three specifications share the variables: each leaves those of the  *)
(* other two at None.                                                      *)
(***************************************************************************)
IdleTextify == t_element = None /\ t_result = None
IdleEntry == e_call = None /\ e_result = None
IdleScript ==
    /\ pc = None /\ args = None /\ random = None /\ fgu = None
    /\ fvtt_file = None /\ fvtt_pos = None /\ backups = None /\ index = None
    /\ fgu_db_logs = None /\ fvtt_entries = None /\ lines = None
    /\ line_number = None /\ payload = None /\ exit_status = None
    /\ writes = None /\ fvtt_file0 = None /\ backups0 = None

(***************************************************************************)
(* The inputs of textify                                                   *)
(***************************************************************************)
MaxChildren == 2

TextSamples == {None, Some(<<>>), Some(<<" ">>), Some(<<"H", "i", "&">>)}
TailSamples == {None, Some(<<"\n", " ">>), Some(<<" ", "T", " ">>)}
NestedSamples ==
    {<<>>, <<Element(<<"b">>, Some(<<"x">>), <<>>, Some(<<"U">>))>>}
HeadSamples == {None, Some(<<"\n", "A">>)}

ChildSamples ==
    {Element(<<"p">>, text, kids, tail) :
        text \in TextSamples, kids \in NestedSamples, tail \in TailSamples}

SeqsUpTo(S, n) == UNION {[1..k -> S] : k \in 0..n}

BlockSamples ==
    {Element(<<"l">>, head, kids, Some(<<"\n">>)) :
        head \in HeadSamples, kids \in SeqsUpTo(ChildSamples, MaxChildren)}

(***************************************************************************)
(* SpecTextify: textify applied to every block of BlockSamples             *)
(***************************************************************************)
InitTextify ==
    /\ t_element \in BlockSamples
    /\ t_result = None
    /\ IdleEntry
    /\ IdleScript

CallTextify ==
    /\ t_result = None
    /\ t_result' = Some(textify(t_element))
    /\ UNCHANGED <<t_element, e_vars, m_vars>>

NextTextify == CallTextify

SpecTextify == InitTextify /\ [][NextTextify]_vars

(***************************************************************************)
(* The inputs of get_fvtt_entries                                          *)
(***************************************************************************)
RngPeriod == 2

DrawSamples == {<<0, 0>>, <<0, 5167>>, <<65535, 65535>>}

CycleSources(n) == {[kind |-> "cycle", vals |-> v] : v \in [1..n -> DrawSamples]}
CountSources == {[kind |-> "count", start |-> d] : d \in DrawSamples}

Leaf(tag, text) == Element(<<tag>>, text, <<>>, Some(<<"\n">>))
Para(text) == Element(<<"p">>, text, <<>>, Some(<<"\n", " ">>))

\* The children of a block: nothing, <p />, <p>Hi</p>, <p> </p><p />.
KidsSamples ==
    {<<>>, <<Para(None)>>, <<Para(Some(<<"H", "i">>))>>,
     <<Para(Some(<<" ">>)), Para(None)>>}

\* A block of an entry: not there (<<>>), or one element with the tag.
LogSamples(tag) ==
    {<<>>} \cup {<<Element(<<tag>>, Some(<<"\n">>), kids, Some(<<"\n">>))>> :
                    kids \in KidsSamples}

YearSamples ==
    {<<>>, <<Leaf("year", None)>>, <<Leaf("year", Some(<<"x">>))>>,
     <<Leaf("year", Some(<<" ", "4", "7", "2", "1", "\n">>))>>,
     <<Leaf("year", Some(<<"-", "3">>))>>}
MonthSamples == {<<>>, <<Leaf("month", Some(<<"1">>))>>}
DaySamples ==
    {<<Leaf("day", Some(<<"9">>))>>, <<Leaf("day", Some(<<"1", "x">>))>>}

\* <id-...> with its children in the order FGU writes them.
Entry(day, gmlog, log, month, year) ==
    Element(<<"id-00134">>, Some(<<"\n">>),
            <<Leaf("public", None)>> \o day \o gmlog \o log \o month
                \o <<Leaf("name", Some(<<"9", "t", "h">>))>> \o year,
            Some(<<"\n">>))

EntrySamples ==
    {Entry(day, gmlog, log, month, year) :
        day \in DaySamples, gmlog \in LogSamples("gmlogentry"),
        log \in LogSamples("logentry"), month \in MonthSamples,
        year \in YearSamples}

TitleSamples ==
    {[public_title |-> "Journal", private_title |-> "Notes"],
     [public_title |-> "", private_title |-> ""]}

(***************************************************************************)
(* SpecEntry: get_fvtt_entries applied to every entry of EntrySamples      *)
(***************************************************************************)
InitEntry ==
    /\ e_call \in
        {[fgu_entry |-> entry, public_title |-> titles.public_title,
          private_title |-> titles.private_title, author |-> "zph8yxjDa80f9VnL",
          rng |-> source] :
            entry \in EntrySamples, titles \in TitleSamples,
            source \in CycleSources(RngPeriod)}
    /\ e_result = None
    /\ IdleTextify
    /\ IdleScript

CallGetFvttEntries ==
    /\ e_result = None
    /\ e_result' = Some(get_fvtt_entries(e_call.fgu_entry, e_call.public_title,
                                         e_call.private_title, e_call.author,
                                         e_call.rng, 0))
    /\ UNCHANGED <<e_call, t_vars, m_vars>>

NextEntry == CallGetFvttEntries

SpecEntry == InitEntry /\ [][NextEntry]_vars

(***************************************************************************)
(* The inputs of the script                                                *)
(***************************************************************************)
MaxEntries == 2
MaxBackups == 2
OldValueLen == 12000

Block(tag, text) ==
    Element(<<tag>>, Some(<<"\n">>), <<Para(text)>>, Some(<<"\n">>))

LogEntry(day, gm, log, year) ==
    Entry(<<Leaf("day", Some(<<day>>))>>, <<Block("gmlogentry", gm)>>,
          <<Block("logentry", log)>>, <<Leaf("month", Some(<<"1">>))>>,
          <<Leaf("year", Some(year))>>)

Both(day) == LogEntry(day, Some(<<"x">>), Some(<<"H", "i">>), <<"4", "7", "2", "1">>)
PrivateOnly(day) == LogEntry(day, Some(<<"x">>), None, <<"4", "7", "2", "1">>)
Malformed(day) == LogEntry(day, Some(<<"x">>), Some(<<"H", "i">>), <<"x">>)

\* The <public /> child of calendar/log.
Marker == Leaf("public", None)

\* n entries with a public and a private text, on days 2, 3, ..., 9, 1, 2, ...
Days(n) == [i \in 1..n |-> Both(Digits[(i % 9) + 2])]

Half == PrintIndex \div 2

\* The children of calendar/log: short lists, and lists long enough for the
\* script to get past its print.
LogSamplesShort ==
    SeqsUpTo({Marker, Both("9"), PrivateOnly("8"), Malformed("7")}, MaxEntries)
LogSamplesLong ==
    {<<Marker>> \o Days(Half),
     Days(Half) \o <<Marker, PrivateOnly("8")>>,
     Days(Half + 1),
     Days(Half + 1) \o <<Malformed("7")>>}

FguSamples == {None} \cup {Some(logs) : logs \in LogSamplesShort \cup LogSamplesLong}

\* A line of settings.db as Foundry writes it: no spaces after "," and ":".
Setting(key, value, id) ==
    <<[name |-> <<"key">>, value |-> <<key>>],
      [name |-> <<"value">>, value |-> value],
      [name |-> <<"_id">>, value |-> <<id>>]>>

Compact(p) ==
    <<"{">>
    \o Join([i \in 1..Len(p) |->
                dumps_str(p[i].name) \o <<":">> \o dumps_str(p[i].value)], <<",">>)
    \o <<"}">>

OtherLine == Compact(Setting("core.time", <<"0">>, "a1")) \o <<"\n">>
KeyLine(value) == Compact(Setting(CAL_SETTINGS, value, "b2")) \o <<"\n">>
KeylessLine == Compact(<<[name |-> <<"_id">>, value |-> <<"c3">>]>>) \o <<"\n">>
ShortValue == <<"[", "]">>
LongValue == [i \in 1..OldValueLen |-> "o"]

\* settings.db with short lines: the key in the middle, no key, the key on a
\* last line without a line break, the key twice, a line without "key" first.
FvttSamplesShort ==
    {OtherLine \o KeyLine(ShortValue) \o OtherLine,
     OtherLine \o OtherLine,
     OtherLine \o Compact(Setting(CAL_SETTINGS, ShortValue, "b2")),
     KeyLine(ShortValue) \o KeyLine(<<"[", "1", "]">>),
     KeylessLine \o KeyLine(ShortValue)}

\* settings.db with more notes stored than the run will produce.
FvttSamplesLong == {KeyLine(LongValue) \o OtherLine}

\* The long settings.db goes with the long logs only: the script does not read
\* settings.db before it has printed.
InputSamples ==
    (FguSamples \X FvttSamplesShort)
        \cup ({Some(logs) : logs \in LogSamplesLong} \X FvttSamplesLong)

BackupSamples ==
    {[i \in S |-> <<"b", Digits[i + 1]>>] : S \in SUBSET (0..(MaxBackups - 1))}

\* A source that gives one number again and again, and sources that never
\* give a number twice in a run.
RandomSamples ==
    {[kind |-> "cycle", vals |-> <<<<0, 5167>>>>]} \cup CountSources

ArgsSamples ==
    {[author |-> "zph8yxjDa80f9VnL", public_title |-> "Journal",
      private_title |-> "Notes"]}

(***************************************************************************)
(* Spec: one run of the script                                             *)
(***************************************************************************)
Init ==
    /\ pc = "backup"
    /\ args \in ArgsSamples
    /\ random \in RandomSamples
    /\ \E input \in InputSamples : fgu = input[1] /\ fvtt_file = input[2]
    /\ fvtt_pos = 0
    /\ backups \in BackupSamples
    /\ index = 0
    /\ fgu_db_logs = None
    /\ fvtt_entries = None
    /\ lines = None
    /\ line_number = None
    /\ payload = None
    /\ exit_status = None
    /\ writes = 0
    /\ fvtt_file0 = fvtt_file
    /\ backups0 = backups
    /\ IdleTextify
    /\ IdleEntry

Next ==
    \/ ProbeBackup
    \/ CopyBackup
    \/ CollectLogs
    \/ Convert
    \/ PrintEntry
    \/ ReadLines
    \/ ScanLine
    \/ NotFound
    \/ Splice
    \/ WriteLines
    \/ Truncate
    \/ Exit

Spec == Init /\ [][Next]_vars

(***************************************************************************)
(* Properties of textify (SpecTextify)                                     *)
(***************************************************************************)
Skipped(child) == child.text = None \/ child.text = Some(<<>>)

\* The first n of a sequence of strings, one after the other.
RECURSIVE Rendered(_, _)
Rendered(parts, n) ==
    IF n = 0 THEN <<>> ELSE Rendered(parts, n - 1) \o parts[n]

\* What each child contributes when a skipped child gives nothing and any
\* other child gives serialize(child), trimmed.
Parts(kids, serialize(_)) ==
    [i \in 1..Len(kids) |->
        IF Skipped(kids[i]) THEN <<>> ELSE strip(serialize(kids[i]))]

Infix(a, b) == \E k \in 0..(Len(b) - Len(a)) : SubSeq(b, k + 1, k + Len(a)) = a

WhitespaceOnly(child) ==
    /\ child.text # None
    /\ child.text[1] # <<>>
    /\ \A i \in 1..Len(child.text[1]) : child.text[1][i] \in Whitespace

\* C3: textify returns the trimmed serializations of the children that have a
\* text, in document order and with nothing between them; a child without
\* text (None or "") is left out with all its markup, a child with only
\* whitespace as text is kept, and a block with no child to keep gives "".
C3_TextifyConcatenates ==
    t_result # None =>
        LET kids == t_element.kids
            out == t_result[1]
        IN /\ out = Rendered(Parts(kids, tostring), Len(kids))
           /\ (\A i \in 1..Len(kids) : Skipped(kids[i])) => out = <<>>
           /\ \A i \in 1..Len(kids) :
                WhitespaceOnly(kids[i]) =>
                    Infix(<<"<">> \o kids[i].tag \o <<">">> \o kids[i].text[1], out)
           /\ (\A i \in 1..Len(kids) : Skipped(kids[i]) \/ kids[i].kids = <<>>)
                => ~Infix(<<"<", "b", ">">>, out)

\* A block whose first child has no text but nested markup and whose second
\* child has whitespace as its text.
C3_Witness ==
    /\ t_result # None
    /\ Len(t_element.kids) = 2
    /\ Skipped(t_element.kids[1]) /\ t_element.kids[1].kids # <<>>
    /\ WhitespaceOnly(t_element.kids[2])
    /\ t_result[1] # <<>>

\* The markup of a child by itself: its tag, its text and what is nested in
\* it, without the text that follows its end tag.
Markup(child) == tostring([child EXCEPT !.tail = None])

\* C10: what textify returns holds neither the text before the block's first
\* child nor the text after a child's end tag; it is made of the kept
\* children's tags, texts and nested markup only.
C10_TextifySkipsTails ==
    t_result # None =>
        t_result[1] = Rendered(Parts(t_element.kids, Markup), Len(t_element.kids))

(***************************************************************************)
(* Properties of get_fvtt_entries (SpecEntry)                              *)
(***************************************************************************)
FieldText(entry, tag) ==
    LET found == find(entry.kids, <<tag>>)
    IN IF found = None THEN None ELSE found[1].text

HasBlocks(entry) ==
    /\ find(entry.kids, <<"logentry">>) # None
    /\ find(entry.kids, <<"gmlogentry">>) # None

Parseable(entry) ==
    \A tag \in {"year", "month", "day"} : int(FieldText(entry, tag)) # None

BlockText(entry, is_public) == textify(find(entry.kids, log_tag(is_public))[1])

\* C1: an entry with a parseable date gives, public first, one note for each
\* of its two blocks whose text is not empty and none for an empty one; no
\* note has an empty content.
C1_OneNotePerText ==
    (e_result # None /\ Parseable(e_call.fgu_entry) /\ HasBlocks(e_call.fgu_entry)) =>
        LET notes == e_result[1].notes
            public == BlockText(e_call.fgu_entry, TRUE)
            private == BlockText(e_call.fgu_entry, FALSE)
            count == (IF public = <<>> THEN 0 ELSE 1)
                        + (IF private = <<>> THEN 0 ELSE 1)
        IN /\ ~e_result[1].raised
           /\ Len(notes) = count
           /\ public # <<>> =>
                notes[1].playerVisible /\ notes[1].content = public
           /\ private # <<>> =>
                ~notes[count].playerVisible /\ notes[count].content = private
           /\ \A i \in 1..Len(notes) : notes[i].content # <<>>

\* An entry with an empty public block, <p />, and a private text.
C1_Witness ==
    /\ e_result # None
    /\ HasBlocks(e_call.fgu_entry)
    /\ find(e_call.fgu_entry.kids, <<"logentry">>)[1].kids # <<>>
    /\ Len(e_result[1].notes) = 1
    /\ ~e_result[1].notes[1].playerVisible

NoteKeys ==
    {"id", "content", "playerVisible", "title", "priority", "author",
     "repeats", "allDay", "categories", "remindUsers", "endDate",
     "year", "month", "day", "hour", "minute"}

Ids == [i \in 1..Len(fvtt_entries) |-> fvtt_entries[i].id]

IsHex8(s) ==
    /\ Len(s) = 8
    /\ \A k \in 1..8 : \E d \in 1..16 : HexDigits[d] = s[k]

\* C4 as claimed: the notes a run has written have pairwise distinct ids.
C4_IdsDistinct ==
    pc = "done" =>
        \A i, j \in 1..Len(fvtt_entries) : i # j => Ids[i] # Ids[j]

\* C4 as amended: the id of every note is the 8 lowercase hexadecimal digits
\* of one outcome of the random source, the i-th note's of the i-th outcome,
\* so two notes have the same id exactly when the source gave the same
\* number for both.
C4_IdsFollowRandom ==
    fvtt_entries # None =>
        /\ \A i \in 1..Len(fvtt_entries) : IsHex8(Ids[i])
        /\ \A i, j \in 1..Len(fvtt_entries) :
                (Ids[i] = Ids[j]) <=> (randrange(random, i) = randrange(random, j))

\* A finished run whose random source gave a number below 16^7 and the same
\* number twice.
C4_Witness ==
    /\ pc = "done"
    /\ \E i, j \in 1..Len(fvtt_entries) : i # j /\ Ids[i] = Ids[j]
    /\ Ids[1][1] = "0"

Children == IF fgu = None THEN <<>> ELSE fgu[1]

HasMalformedEntry ==
    \E i \in 1..Len(Children) :
        Children[i].tag # <<"public">> /\ ~Parseable(Children[i])

DecodedLines(data) ==
    LET read == readlines(data)
    IN [n \in 1..Len(read) |-> loads(strip(read[n]))]

IsKeyLine(decoded) ==
    decoded # None /\ getitem(decoded[1], "key") = Some(<<CAL_SETTINGS>>)

NoKeyLine ==
    LET decoded == DecodedLines(fvtt_file0)
    IN \A n \in 1..Len(decoded) : ~IsKeyLine(decoded[n])

\* C5: a run that fails has not written to settings.db; a run over a log with
\* an entry whose year, month or day is missing or not a number, or over a
\* settings.db without the key, binds no list of notes for the former, never
\* gets to writing and leaves settings.db as it was.
C5_FailedRunWritesNothing ==
    /\ pc = "aborted" => writes = 0 /\ fvtt_file = fvtt_file0
    /\ HasMalformedEntry => fvtt_entries = None
    /\ (HasMalformedEntry \/ NoKeyLine) =>
        /\ pc \notin {"splice", "write", "truncate", "exit", "done"}
        /\ writes = 0
        /\ fvtt_file = fvtt_file0

\* A run that stopped at a malformed entry that follows more entries than the
\* script needs to get past its print.
C5_Witness ==
    /\ pc = "aborted"
    /\ HasMalformedEntry
    /\ Len(Children) > Half + 1
    /\ exit_status.error = "ConversionError"

WellFormedLog ==
    /\ fgu # None
    /\ \A i \in 1..Len(Children) :
            Children[i].tag # <<"public">> =>
                Parseable(Children[i]) /\ HasBlocks(Children[i])

WellFormedStore ==
    LET decoded == DecodedLines(fvtt_file0)
    IN /\ \A n \in 1..Len(decoded) :
            decoded[n] # None /\ getitem(decoded[n][1], "key") # None
       /\ ~NoKeyLine

\* C6: over a well-formed log and a settings.db with the key the run does not
\* fail: it ends with exit code 0, the notes stored.
C6_WellFormedRunCompletes ==
    (WellFormedLog /\ WellFormedStore) =>
        /\ pc # "aborted"
        /\ pc = "done" => exit_status.code = 0 /\ writes = 1

\* The first line of settings.db that holds the key.
KeyLineNumber ==
    LET decoded == DecodedLines(fvtt_file0)
    IN CHOOSE n \in 1..Len(decoded) :
            IsKeyLine(decoded[n]) /\ \A m \in 1..(n - 1) : ~IsKeyLine(decoded[m])

FreeIndex ==
    CHOOSE n \in 0..MaxBackups :
        n \notin DOMAIN backups0 /\ \A m \in 0..(n - 1) : m \in DOMAIN backups0

\* C8: the backups of before the run stay as they are; once the script is
\* past its copy there is one more, settings.db.bak.N with the least N that
\* was free, and it holds settings.db as it was before the run; this is so
\* before any write to settings.db and at the end of every run.
C8_BackupBeforeWrite ==
    /\ \A n \in DOMAIN backups0 : n \in DOMAIN backups /\ backups[n] = backups0[n]
    /\ pc = "backup" => DOMAIN backups = DOMAIN backups0 /\ writes = 0
    /\ pc # "backup" =>
        /\ DOMAIN backups = DOMAIN backups0 \cup {FreeIndex}
        /\ backups[FreeIndex] = fvtt_file0
    /\ (writes > 0 \/ pc \in {"done", "aborted"}) => FreeIndex \in DOMAIN backups

\* A finished run that found settings.db.bak.0 and has changed settings.db.
C8_Witness ==
    /\ pc = "done"
    /\ 0 \in DOMAIN backups0
    /\ fvtt_file # fvtt_file0
    /\ backups[FreeIndex] = fvtt_file0

\* The notes of the first n children of calendar/log, the marker giving none.
RECURSIVE ExpectedNotes(_)
ExpectedNotes(n) ==
    IF n = 0 THEN <<>>
    ELSE LET before == ExpectedNotes(n - 1)
         IN IF Children[n].tag = <<"public">> THEN before
            ELSE before \o get_fvtt_entries(Children[n], args.public_title,
                                            args.private_title, args.author,
                                            random, Len(before)).notes

\* C9: the list of notes is what get_fvtt_entries gives for each child of
\* calendar/log other than the marker, child after child in document order,
\* and the value stored at the key is this list, serialized.
C9_NotesInDocumentOrder ==
    /\ fvtt_entries # None => fvtt_entries = ExpectedNotes(Len(Children))
    /\ pc = "done" =>
        LET stored == loads(strip(readlines(fvtt_file)[KeyLineNumber]))
        IN /\ stored # None
           /\ getitem(stored[1], "value") = Some(dumps(fvtt_entries))
           /\ fvtt_entries = ExpectedNotes(Len(Children))

\* A finished run over a log with the marker between its entries and an entry
\* with a private text only at its end.
C9_Witness ==
    /\ pc = "done"
    /\ \E i \in 2..Len(Children) : Children[i].tag = <<"public">>
    /\ Len(fvtt_entries) = PrintIndex + 1
    /\ ~fvtt_entries[PrintIndex + 1].playerVisible

=============================================================================
